---- MODULE Spec2Model ----
(***************************************************************************)
(* KUHUL PoC: the event-sourcing core behind the `kuhul` command line.     *)
(*                                                                         *)
(* src/kuhul_poc/cli.py (main, make_cmd, load_events) and                  *)
(* src/kuhul_poc/providers.py (request_chat and its helpers) are modelled  *)
(* from their code.  The modules cli.py imports but the repository         *)
(* snapshot does not hold (ids.IdGen, session_log.SessionLog,              *)
(* bus.EventBus, engine.Engine, state.KuhulState, svg_renderer.render_svg) *)
(* are modelled from spec.md sections 3, 4 and 6.                          *)
(*                                                                         *)
(* Five specifications share the variables:                                *)
(*   Spec        one session driven by successive CLI invocations, each    *)
(*               finishing before the next starts (spec.md section 5);     *)
(*   SpecEngine  one Engine instance inside one process, driven through    *)
(*               its API;                                                  *)
(*   SpecBus     one EventBus instance and its subscribers;                *)
(*   SpecReplay  the replay invocation over an arbitrary JSONL file        *)
(*               (`kuhul replay --file F`);                                *)
(*   SpecProvider  providers.request_chat called directly.                 *)
(***************************************************************************)
EXTENDS Integers, Sequences, FiniteSets, TLC

VARIABLES
    cmdFile,      \* <out>/<session>.commands.jsonl : sequence of lines
    evFile,       \* <out>/<session>.events.jsonl   : sequence of lines
    journal,      \* history: every record handed to SessionLog.append, in call order
    engineState,  \* engine.state of the (latest) process: [components, theme]
    subscribers,  \* bus handlers of the (latest) process, in subscription order
    delivered,    \* history: handler invocations of the (latest) process, in order
    published,    \* history: per bus.publish of the (latest) process, the number of subscribers then
    idCounter,    \* IdGen's counter in the (latest) process
    clock,        \* time.time() in ms, as the latest invocation read it
    svgFile,      \* <out>/<session>.svg : what render_svg was last given
    replaySvg,    \* <out>/<session>.replay.svg
    foreignFile,  \* the file a `replay --file F` reads
    requests,     \* history: the HTTP requests the (latest) process handed to urlopen
    last          \* the latest invocation or API call and how it ended

vars == <<cmdFile, evFile, journal, engineState, subscribers, delivered, published,
          idCounter, clock, svgFile, replaySvg, foreignFile, requests, last>>

(***************************************************************************)
(* Bounds of the model.                                                    *)
(***************************************************************************)
MaxInvocations == 2   \* CLI invocations that write a command (Spec)
MaxIds == 6           \* ids one IdGen hands out (SpecEngine)
MaxSubs == 2          \* handlers subscribed to one bus (SpecBus)
MaxPublishes == 2     \* events published through one bus (SpecBus)
MaxForeignLen == 3    \* lines of the file given to replay --file (SpecReplay)
MaxRequests == 2      \* HTTP requests one process issues through request_chat (SpecProvider)

(***************************************************************************)
(* JSON values, as Python holds them after json.loads.  Each type keeps    *)
(* its payload under a field of its own, so values of different types are  *)
(* simply unequal.                                                         *)
(***************************************************************************)
Null == [t |-> "null"]
Str(s) == [t |-> "str", s |-> s]
Num(n) == [t |-> "num", n |-> n]
List(s) == [t |-> "list", xs |-> s]
Dict(f) == [t |-> "dict", kv |-> f]
EmptyDict == Dict(<<>>)

IsDict(j) == j.t = "dict"

\* dict.get(k): the value, or None when the key is absent
Get(j, k) == IF k \in DOMAIN j.kv THEN j.kv[k] ELSE Null

\* Python truthiness, as `x or y` and `if x:` use it
Truthy(j) ==
    CASE j.t = "null" -> FALSE
      [] j.t = "str"  -> ("s" \in DOMAIN j) => j.s # ""
      [] j.t = "num"  -> j.n # 0
      [] j.t = "list" -> j.xs # <<>>
      [] j.t = "dict" -> DOMAIN j.kv # {}
      [] OTHER        -> TRUE

(***************************************************************************)
(* Closed sets the CLI and the replay loop name.                           *)
(***************************************************************************)
ComponentTypes == {"button", "card", "chat-bubble"}
Themes == {"dark", "light"}

(***************************************************************************)
(* ids.IdGen (spec.md 4.1): next_id(kind, ts_ms) is made unique inside one *)
(* process by a counter owned by the generator.  An id is a string; it is  *)
(* held here as the triple it is formatted from.                           *)
(***************************************************************************)
MkId(kind, ts, n) == [t |-> "str", id |-> <<kind, ts, n>>]

(***************************************************************************)
(* state.KuhulState (spec.md 3, 4.4): components in creation order and a   *)
(* theme with a fixed default; to_dict() serialises both.                  *)
(***************************************************************************)
DefaultTheme == "light"
KuhulState == [components |-> <<>>, theme |-> Str(DefaultTheme)]
ToDict(st) == Dict([components |-> List(st.components), theme |-> st.theme])

(***************************************************************************)
(* svg_renderer.render_svg (spec.md 6): a deterministic function of the    *)
(* serialised State; the markup is not specified, so the document is held  *)
(* as the State it draws.                                                  *)
(***************************************************************************)
RenderSvg(d) == [doc |-> "svg", theme |-> Get(d, "theme"), items |-> Get(d, "components").xs]
NoFile == [doc |-> "absent"]

(***************************************************************************)
(* session_log.SessionLog (spec.md 4.2): append writes one JSON line and   *)
(* never touches prior lines; read_all parses every line in write order    *)
(* and aborts with a corrupt-log error on a malformed one.  A file that    *)
(* does not exist reads as the empty sequence.                             *)
(***************************************************************************)
Dumps(rec) == [text |-> "json", value |-> rec]
MalformedLine == [text |-> "garbage"]
LogAppend(file, rec) == Append(file, Dumps(rec))
ReadAll(file) ==
    IF \E i \in 1..Len(file) : file[i].text # "json"
    THEN [ok |-> FALSE, records |-> <<>>]
    ELSE [ok |-> TRUE, records |-> [i \in 1..Len(file) |-> file[i].value]]

(***************************************************************************)
(* The memory and files one process works on; the operators below take     *)
(* such a record and return the one after the call.  err is the exception  *)
(* the call raised ("" when it returned), cmd the command made, rc what    *)
(* main returns, chat how request_chat ended, requests the HTTP requests   *)
(* issued.                                                                 *)
(***************************************************************************)
Process(cf, ef, jr, st, ctr, dl, pb) ==
    [cmdFile |-> cf, evFile |-> ef, journal |-> jr, state |-> st, idCounter |-> ctr,
     delivered |-> dl, published |-> pb, err |-> "", cmd |-> Null, rc |-> 0, chat |-> "",
     requests |-> <<>>]

Raise(w, e) == [w EXCEPT !.err = e]

(***************************************************************************)
(* bus.EventBus (spec.md 4.3): publish persists the event to the log       *)
(* first, then calls every current subscriber once, in subscription order; *)
(* a raising handler stops neither the later handlers nor the publisher.   *)
(* Each call is recorded with the length of the log the handler could read *)
(* when it was called.                                                     *)
(***************************************************************************)
\* (mutant) the first raising handler ends the notification
Deliveries_StopAtRaise(subs, e, logLen) ==
    LET raising == {i \in 1..Len(subs) : subs[i] = "raises"}
        n == IF raising = {} THEN Len(subs)
             ELSE CHOOSE i \in raising : \A j \in raising : i <= j
    IN  [i \in 1..n |->
            [sub |-> i, handler |-> subs[i], evt |-> Get(e, "id"), logLen |-> logLen,
             raised |-> subs[i] = "raises"]]

Deliveries(subs, e, logLen) ==
    [i \in 1..Len(subs) |->
        [sub |-> i, handler |-> subs[i], evt |-> Get(e, "id"), logLen |-> logLen,
         raised |-> subs[i] = "raises"]]

Publish(w, subs, e) ==
    LET ef == LogAppend(w.evFile, e)
    IN  [w EXCEPT !.evFile = ef,
                  !.journal = Append(@, [log |-> "events", rec |-> e]),
                  !.published = Append(@, Len(subs)),
                  !.delivered = @ \o Deliveries(subs, e, Len(ef))]

(***************************************************************************)
(* engine.Engine (spec.md 4.5).                                            *)
(***************************************************************************)
Event(id, ts, cause, topic, data) ==
    Dict([id |-> id, ts_ms |-> Num(ts), caused_by |-> cause, topic |-> Str(topic),
          data |-> data])

EmitEvent(w, subs, ts, cause, topic, data) ==
    LET n == w.idCounter + 1
    IN  Publish([w EXCEPT !.idCounter = n], subs,
                Event(MkId("evt", ts, n), ts, cause, topic, data))

StateSnapshot(w, subs, ts, cause) ==
    EmitEvent(w, subs, ts, cause, "state.snapshot", ToDict(w.state))

\* (mutant) create accepts any component type
CommandError_Lax(cmd) ==
    LET op == Get(cmd, "op")
        args == Get(cmd, "args")
    IN  CASE op = Str("ui.create") ->
               IF ~IsDict(args) \/ Get(args, "component") = Null
                  \/ ~IsDict(Get(args, "props"))
               THEN "InvalidArgument" ELSE ""
          [] op = Str("ui.theme.apply") ->
               IF \/ ~IsDict(args)
                  \/ Get(args, "name") \notin {Str(c) : c \in Themes}
               THEN "InvalidArgument" ELSE ""
          [] op = Str("svg.export") ->
               IF ~IsDict(args) THEN "InvalidArgument" ELSE ""
          [] op = Str("ai.chat") -> ""
          [] OTHER -> "UnrecognizedOperation"

\* the error apply_command raises before it mutates anything ("" when the
\* command is well formed): the op is not one of the table, or a required
\* argument is missing or malformed
CommandError(cmd) ==
    LET op == Get(cmd, "op")
        args == Get(cmd, "args")
    IN  CASE op = Str("ui.create") ->
               IF \/ ~IsDict(args)
                  \/ Get(args, "component") \notin {Str(c) : c \in ComponentTypes}
                  \/ ~IsDict(Get(args, "props"))
               THEN "InvalidArgument" ELSE ""
          [] op = Str("ui.theme.apply") ->
               IF \/ ~IsDict(args)
                  \/ Get(args, "name") \notin {Str(c) : c \in Themes}
               THEN "InvalidArgument" ELSE ""
          [] op = Str("svg.export") ->
               IF ~IsDict(args) THEN "InvalidArgument" ELSE ""
          [] op = Str("ai.chat") -> ""
          [] OTHER -> "UnrecognizedOperation"

ApplyCommand(w, subs, ts, cmd) ==
    LET op == Get(cmd, "op")
        args == Get(cmd, "args")
        n == w.idCounter + 1
    IN  IF CommandError(cmd) # "" THEN Raise(w, CommandError(cmd))
        ELSE CASE op = Str("ui.create") ->
                    LET comp == Dict([id |-> MkId("cmp", ts, n),
                                      type |-> Get(args, "component"),
                                      props |-> Get(args, "props")])
                        w1 == [w EXCEPT !.idCounter = n,
                                        !.state.components = Append(@, comp)]
                    IN  EmitEvent(w1, subs, ts, Get(cmd, "id"), "state.changed",
                                  Dict([kind |-> Str("component.created"),
                                        component |-> comp]))
               [] op = Str("ui.theme.apply") ->
                    EmitEvent([w EXCEPT !.state.theme = Get(args, "name")], subs, ts,
                              Get(cmd, "id"), "state.changed",
                              Dict([kind |-> Str("theme.changed"),
                                    to |-> Get(args, "name")]))
               [] op = Str("svg.export") ->
                    EmitEvent(w, subs, ts, Get(cmd, "id"), "svg.export.requested",
                              Dict([hint |-> Get(args, "hint")]))
               [] OTHER -> w

(***************************************************************************)
(* cli.py: make_cmd, load_events and the replay loop.                      *)
(***************************************************************************)
Session == "sess_local"

\* make_cmd: the command record; n is the counter value IdGen.next_id hands out
MakeCmd(n, ts, op, args) ==
    Dict(("@type" :> Str("kuhul.command")) @@ ("@v" :> Str("1.0.0")) @@
         [id |-> MkId("cmd", ts, n), ts_ms |-> Num(ts),
          source |-> Dict([kind |-> Str("cli"), who |-> Str("local"),
                           session |-> Str(Session)]),
          op |-> Str(op), args |-> args])

\* (mutant) the command is made but never appended to the command log
PersistCommand_NotLogged(w, ts, op, args) ==
    LET n == w.idCounter + 1
    IN  [w EXCEPT !.idCounter = n, !.cmd = MakeCmd(n, ts, op, args)]

\* SessionLog(<session>.commands.jsonl).append(cmd), after make_cmd
PersistCommand(w, ts, op, args) ==
    LET n == w.idCounter + 1
        cmd == MakeCmd(n, ts, op, args)
    IN  [w EXCEPT !.idCounter = n, !.cmd = cmd,
                  !.cmdFile = LogAppend(@, cmd),
                  !.journal = Append(@, [log |-> "commands", rec |-> cmd])]

\* (mutant) malformed lines are skipped and the rest is handed on
LoadEvents_SkipMalformed(file) ==
    LET good == SelectSeq(file, LAMBDA l : l.text = "json")
    IN  [ok |-> TRUE, records |-> [i \in 1..Len(good) |-> good[i].value]]

\* load_events: list(log.read_all()), the whole log read before anything is folded
LoadEvents(file) == ReadAll(file)

\* (mutant) a state.snapshot event resets the State to the one it carries
ReplayStep_UseSnapshot(r, e) ==
    IF r.err # "" THEN r
    ELSE IF ~IsDict(e) THEN [r EXCEPT !.err = "AttributeError"]
    ELSE IF Get(e, "topic") = Str("state.snapshot")
    THEN [r EXCEPT !.st = [components |-> Get(Get(e, "data"), "components").xs,
                           theme |-> Get(Get(e, "data"), "theme")]]
    ELSE IF Get(e, "topic") # Str("state.changed") THEN r
    ELSE LET d0 == IF "data" \in DOMAIN e.kv THEN e.kv["data"] ELSE EmptyDict
             data == IF Truthy(d0) THEN d0 ELSE EmptyDict
         IN  IF ~IsDict(data) THEN [r EXCEPT !.err = "AttributeError"]
             ELSE LET kind == Get(data, "kind")
                      comp == Get(data, "component")
                      to == Get(data, "to")
                  IN  IF kind = Str("component.created")
                      THEN IF IsDict(comp)
                           THEN [r EXCEPT !.st.components = Append(@, comp)]
                           ELSE r
                      ELSE IF kind = Str("theme.changed")
                      THEN IF to \in {Str("dark"), Str("light")}
                           THEN [r EXCEPT !.st.theme = to]
                           ELSE r
                      ELSE r

\* (mutant) a component already reconstructed is not appended again
ReplayStep_Dedup(r, e) ==
    IF r.err # "" THEN r
    ELSE IF ~IsDict(e) THEN [r EXCEPT !.err = "AttributeError"]
    ELSE IF Get(e, "topic") # Str("state.changed") THEN r
    ELSE LET d0 == IF "data" \in DOMAIN e.kv THEN e.kv["data"] ELSE EmptyDict
             data == IF Truthy(d0) THEN d0 ELSE EmptyDict
         IN  IF ~IsDict(data) THEN [r EXCEPT !.err = "AttributeError"]
             ELSE LET kind == Get(data, "kind")
                      comp == Get(data, "component")
                      to == Get(data, "to")
                  IN  IF kind = Str("component.created")
                      THEN IF IsDict(comp) /\ \A i \in 1..Len(r.st.components) : r.st.components[i] # comp
                           THEN [r EXCEPT !.st.components = Append(@, comp)]
                           ELSE r
                      ELSE IF kind = Str("theme.changed")
                      THEN IF to \in {Str("dark"), Str("light")}
                           THEN [r EXCEPT !.st.theme = to]
                           ELSE r
                      ELSE r

\* (mutant) only the first theme.changed event is taken
ReplayStep_FirstThemeWins(r, e) ==
    IF r.err # "" THEN r
    ELSE IF ~IsDict(e) THEN [r EXCEPT !.err = "AttributeError"]
    ELSE IF Get(e, "topic") # Str("state.changed") THEN r
    ELSE LET d0 == IF "data" \in DOMAIN e.kv THEN e.kv["data"] ELSE EmptyDict
             data == IF Truthy(d0) THEN d0 ELSE EmptyDict
         IN  IF ~IsDict(data) THEN [r EXCEPT !.err = "AttributeError"]
             ELSE LET kind == Get(data, "kind")
                      comp == Get(data, "component")
                      to == Get(data, "to")
                  IN  IF kind = Str("component.created")
                      THEN IF IsDict(comp)
                           THEN [r EXCEPT !.st.components = Append(@, comp)]
                           ELSE r
                      ELSE IF kind = Str("theme.changed")
                      THEN IF to \in {Str("dark"), Str("light")} /\ r.st.theme = KuhulState.theme
                           THEN [r EXCEPT !.st.theme = to]
                           ELSE r
                      ELSE r

\* One turn of the loop `for e in events` of the replay subcommand.  r.err is
\* the exception that ended the loop ("" while it runs).
ReplayStep(r, e) ==
    IF r.err # "" THEN r
    ELSE IF ~IsDict(e) THEN [r EXCEPT !.err = "AttributeError"]
    ELSE IF Get(e, "topic") # Str("state.changed") THEN r
    ELSE LET d0 == IF "data" \in DOMAIN e.kv THEN e.kv["data"] ELSE EmptyDict
             data == IF Truthy(d0) THEN d0 ELSE EmptyDict
         IN  IF ~IsDict(data) THEN [r EXCEPT !.err = "AttributeError"]
             ELSE LET kind == Get(data, "kind")
                      comp == Get(data, "component")
                      to == Get(data, "to")
                  IN  IF kind = Str("component.created")
                      THEN IF IsDict(comp)
                           THEN [r EXCEPT !.st.components = Append(@, comp)]
                           ELSE r
                      ELSE IF kind = Str("theme.changed")
                      THEN IF to \in {Str("dark"), Str("light")}
                           THEN [r EXCEPT !.st.theme = to]
                           ELSE r
                      ELSE r

\* (mutant) the loop runs over the events last to first
RECURSIVE ReplayFold_Reversed(_, _)
ReplayFold_Reversed(r, events) ==
    IF events = <<>> THEN r
    ELSE ReplayStep(ReplayFold_Reversed(r, Tail(events)), Head(events))

RECURSIVE ReplayFold(_, _)
ReplayFold(r, events) ==
    IF events = <<>> THEN r
    ELSE ReplayFold(ReplayStep(r, Head(events)), Tail(events))

\* (mutant) the fold goes on from the State the previous replay drew
Replay_Accumulating(events) ==
    ReplayFold([err |-> "",
                st |-> IF replaySvg.doc = "svg"
                       THEN [components |-> replaySvg.items, theme |-> replaySvg.theme]
                       ELSE KuhulState],
               events)

\* st = KuhulState(); for e in events: ...
Replay(events) == ReplayFold([err |-> "", st |-> KuhulState], events)

(***************************************************************************)
(* providers.py.  The network is the environment: one POST ends in one of  *)
(* the outcomes of HttpOutcomes.  A result is                              *)
(*   [kind |-> "ok", content]        request_chat returned (content, meta) *)
(*   [kind |-> "ProviderError", msg] it raised ProviderError               *)
(*   [kind |-> "raise", exc]         another exception left it             *)
(* and sent tells whether urlopen was called.                              *)
(***************************************************************************)
ProviderKind(provider) == IF provider = "claude" THEN "anthropic" ELSE "openai"
Providers == {"openai", "mistral", "deepseek", "codestral", "claude", "inference"}

Ok(content) == [kind |-> "ok", content |-> content, msg |-> "", exc |-> "", sent |-> TRUE]
ProviderErr(msg, sent) ==
    [kind |-> "ProviderError", content |-> Null, msg |-> msg, exc |-> "", sent |-> sent]
Escapes(exc) == [kind |-> "raise", content |-> Null, msg |-> "", exc |-> exc, sent |-> TRUE]

\* x[0] for a JSON value x that is truthy
First(x) ==
    CASE x.t = "list" -> [exc |-> "", val |-> x.xs[1]]
      [] x.t = "str"  -> [exc |-> "", val |-> Str("c")]
      [] x.t = "dict" -> [exc |-> "KeyError", val |-> Null]
      [] OTHER        -> [exc |-> "TypeError", val |-> Null]

\* `a or b`
OrElse(a, b) == IF Truthy(a) THEN a ELSE b

\* _request_openai_compatible, after _post_json returned data
ParseOpenAI(data) ==
    IF ~IsDict(data) THEN ProviderErr("Empty response from provider", TRUE)
    ELSE LET choices == OrElse(Get(data, "choices"), List(<<>>))
         IN  IF ~Truthy(choices) THEN ProviderErr("Empty response from provider", TRUE)
             ELSE LET f == First(choices)
                  IN  IF f.exc # "" THEN Escapes(f.exc)
                      ELSE IF ~IsDict(f.val) THEN Escapes("AttributeError")
                      ELSE LET message_obj == OrElse(Get(f.val, "message"), EmptyDict)
                           IN  IF ~IsDict(message_obj) THEN Escapes("AttributeError")
                               ELSE LET content ==
                                            OrElse(Get(message_obj, "content"),
                                                   OrElse(Get(f.val, "text"), Str("")))
                                    IN  IF ~Truthy(content)
                                        THEN ProviderErr("Empty response from provider", TRUE)
                                        ELSE Ok(content)

\* _request_anthropic, after _post_json returned data
ParseAnthropic(data) ==
    IF ~IsDict(data) THEN ProviderErr("Empty response from provider", TRUE)
    ELSE LET parts == OrElse(Get(data, "content"), List(<<>>))
         IN  IF ~Truthy(parts) THEN ProviderErr("Empty response from provider", TRUE)
             ELSE LET f == First(parts)
                  IN  IF f.exc # "" THEN Escapes(f.exc)
                      ELSE IF ~IsDict(f.val) THEN Escapes("AttributeError")
                      ELSE LET content == OrElse(Get(f.val, "text"), Str(""))
                           IN  IF ~Truthy(content)
                               THEN ProviderErr("Empty response from provider", TRUE)
                               ELSE Ok(content)

\* _post_json: the exceptions it turns into ProviderError, and those it does not
PostJson(http) ==
    CASE http.k = "HTTPError"   -> ProviderErr("HTTP error", TRUE)
      [] http.k = "URLError"    -> ProviderErr("Connection error", TRUE)
      [] http.k = "bad_json"    -> ProviderErr("Invalid JSON response", TRUE)
      [] http.k = "read_timeout" -> Escapes("TimeoutError")
      [] http.k = "bad_utf8"    -> Escapes("UnicodeDecodeError")
      [] OTHER                  -> Ok(http.body)

\* (mutant) the request goes out before the key is looked at
RequestChat_SendFirst(provider, api_key, env_key, http) ==
    IF provider \notin Providers
    THEN ProviderErr("Unsupported provider", FALSE)
    ELSE LET key == OrElse(api_key, env_key)
             got == PostJson(http)
         IN  IF ~Truthy(key) THEN ProviderErr("Missing API key", TRUE)
             ELSE IF got.kind # "ok" THEN got
                  ELSE IF ProviderKind(provider) = "anthropic"
                       THEN ParseAnthropic(got.content)
                       ELSE ParseOpenAI(got.content)

\* request_chat: provider looked up, key resolved (argument, else environment), then sent
RequestChat(provider, api_key, env_key, http) ==
    IF provider \notin Providers
    THEN ProviderErr("Unsupported provider", FALSE)
    ELSE LET key == OrElse(api_key, env_key)
         IN  IF ~Truthy(key) THEN ProviderErr("Missing API key", FALSE)
             ELSE LET got == PostJson(http)
                  IN  IF got.kind # "ok" THEN got
                      ELSE IF ProviderKind(provider) = "anthropic"
                           THEN ParseAnthropic(got.content)
                           ELSE ParseOpenAI(got.content)

\* urllib.request.Request(url, data=body, headers=headers, method="POST"): the
\* endpoint of the provider's kind and the key its headers carry
Request(provider, api_key, env_key) ==
    [url |-> <<provider, IF ProviderKind(provider) = "anthropic" THEN "/messages"
                         ELSE "/chat/completions">>,
     key |-> OrElse(api_key, env_key)]

\* Response bodies and transport outcomes the environment may produce
Body(b) == [k |-> "json", body |-> b]
GoodOpenAI == Dict([choices |-> List(<<Dict([message |-> Dict([content |-> Str("hello")])])>>)])
GoodAnthropic == Dict([content |-> List(<<Dict([type |-> Str("text"), text |-> Str("hello")])>>)])
NoChoices == Dict([choices |-> List(<<>>)])
ChoicesOfStrings == Dict([choices |-> List(<<Str("x")>>)])
ContentString == Dict([content |-> Str("hello")])
HttpOutcomes ==
    {[k |-> "HTTPError"], [k |-> "URLError"], [k |-> "bad_json"], [k |-> "read_timeout"],
     Body(GoodOpenAI), Body(GoodAnthropic), Body(NoChoices), Body(ChoicesOfStrings),
     Body(ContentString)}

(***************************************************************************)
(* cli.py main: what one invocation does after parse_args.  Every          *)
(* invocation builds a new SessionLog on the session's event log, a new    *)
(* EventBus, a new IdGen and a new Engine over an empty KuhulState         *)
(* (lines 115-129); the printer subscribes unless --quiet.                 *)
(***************************************************************************)
\* now_ms(): successive invocations are separate processes run one after the
\* other, so each reads a later millisecond than the one before; the reads
\* inside one invocation fall in the same millisecond
NowMs == clock + 1

\* (mutant) the invocation starts its event log afresh
Startup_Truncate(cf, ef, jr) == Process(cf, <<>>, jr, KuhulState, 0, <<>>, <<>>)

Startup(cf, ef, jr) == Process(cf, ef, jr, KuhulState, 0, <<>>, <<>>)
Handlers(quiet) == IF quiet THEN <<>> ELSE <<"printer">>

\* lines 133-137: --text goes under "label" for a card, under "text" otherwise
Props(component, text) ==
    IF text = Null THEN EmptyDict
    ELSE IF component # "card" THEN Dict([text |-> text]) ELSE Dict([label |-> text])

\* (mutant) the snapshot is taken before the command is applied
ApplyAndSnapshot_SnapshotFirst(w, subs, ts) ==
    LET w1 == ApplyCommand(StateSnapshot(w, subs, ts, Get(w.cmd, "id")), subs, ts, w.cmd)
    IN  w1

\* lines 132-150 (create) and 160-164 (theme), 176-181 (export-svg):
\* command persisted, applied, then a snapshot; an exception ends the invocation
ApplyAndSnapshot(w, subs, ts) ==
    LET w1 == ApplyCommand(w, subs, ts, w.cmd)
    IN  IF w1.err # "" THEN w1 ELSE StateSnapshot(w1, subs, ts, Get(w.cmd, "id"))

RunCreate(w, subs, ts, component, text) ==
    ApplyAndSnapshot(
        PersistCommand(w, ts, "ui.create",
                       Dict([component |-> Str(component), props |-> Props(component, text)])),
        subs, ts)

RunTheme(w, subs, ts, name) ==
    ApplyAndSnapshot(PersistCommand(w, ts, "ui.theme.apply", Dict([name |-> Str(name)])),
                     subs, ts)

RunExport(w, subs, ts, hint) ==
    ApplyAndSnapshot(PersistCommand(w, ts, "svg.export", Dict([hint |-> Str(hint)])),
                     subs, ts)

\* (mutant) the answer is recorded under the topic of a state change
RunChat_WrongTopic(w, subs, ts, provider, api_key, env_key, http) ==
    LET w1 == PersistCommand(w, ts, "ai.chat",
                  Dict([provider |-> Str(provider), model |-> Str("m"),
                        message |-> Str("hi"), system |-> Null,
                        temperature |-> [t |-> "num", n |-> 2, tenths |-> TRUE],
                        max_tokens |-> Num(512)]))
        got == RequestChat(provider, api_key, env_key, http)
        w2 == [w1 EXCEPT !.requests = IF got.sent
                                       THEN Append(@, Request(provider, api_key, env_key))
                                       ELSE @]
    IN  CASE got.kind = "ProviderError" ->
               [EmitEvent(w2, subs, ts, Get(w1.cmd, "id"), "ai.chat.failed",
                          Dict([provider |-> Str(provider), error |-> Str(got.msg)]))
                   EXCEPT !.rc = 1, !.chat = got.kind]
          [] got.kind = "ok" ->
               [EmitEvent(w2, subs, ts, Get(w1.cmd, "id"), "state.changed",
                          Dict([provider |-> Str(provider), model |-> Str("m"),
                                response |-> got.content,
                                meta |-> Dict([request_url |-> Str(ProviderKind(provider))])]))
                   EXCEPT !.chat = got.kind]
          [] OTHER -> [w2 EXCEPT !.err = got.exc, !.chat = got.kind]

\* (mutant) a provider error is recorded but main still returns 0
RunChat_FailedReturnsZero(w, subs, ts, provider, api_key, env_key, http) ==
    LET w1 == PersistCommand(w, ts, "ai.chat",
                  Dict([provider |-> Str(provider), model |-> Str("m"),
                        message |-> Str("hi"), system |-> Null,
                        temperature |-> [t |-> "num", n |-> 2, tenths |-> TRUE],
                        max_tokens |-> Num(512)]))
        got == RequestChat(provider, api_key, env_key, http)
        w2 == [w1 EXCEPT !.requests = IF got.sent
                                       THEN Append(@, Request(provider, api_key, env_key))
                                       ELSE @]
    IN  CASE got.kind = "ProviderError" ->
               [EmitEvent(w2, subs, ts, Get(w1.cmd, "id"), "ai.chat.failed",
                          Dict([provider |-> Str(provider), error |-> Str(got.msg)]))
                   EXCEPT !.chat = got.kind]
          [] got.kind = "ok" ->
               [EmitEvent(w2, subs, ts, Get(w1.cmd, "id"), "ai.chat.completed",
                          Dict([provider |-> Str(provider), model |-> Str("m"),
                                response |-> got.content,
                                meta |-> Dict([request_url |-> Str(ProviderKind(provider))])]))
                   EXCEPT !.chat = got.kind]
          [] OTHER -> [w2 EXCEPT !.err = got.exc, !.chat = got.kind]

\* lines 220-269
RunChat(w, subs, ts, provider, api_key, env_key, http) ==
    LET w1 == PersistCommand(w, ts, "ai.chat",
                  Dict([provider |-> Str(provider), model |-> Str("m"),
                        message |-> Str("hi"), system |-> Null,
                        temperature |-> [t |-> "num", n |-> 2, tenths |-> TRUE],
                        max_tokens |-> Num(512)]))
        got == RequestChat(provider, api_key, env_key, http)
        w2 == [w1 EXCEPT !.requests = IF got.sent
                                       THEN Append(@, Request(provider, api_key, env_key))
                                       ELSE @]
    IN  CASE got.kind = "ProviderError" ->
               [EmitEvent(w2, subs, ts, Get(w1.cmd, "id"), "ai.chat.failed",
                          Dict([provider |-> Str(provider), error |-> Str(got.msg)]))
                   EXCEPT !.rc = 1, !.chat = got.kind]
          [] got.kind = "ok" ->
               [EmitEvent(w2, subs, ts, Get(w1.cmd, "id"), "ai.chat.completed",
                          Dict([provider |-> Str(provider), model |-> Str("m"),
                                response |-> got.content,
                                meta |-> Dict([request_url |-> Str(ProviderKind(provider))])]))
                   EXCEPT !.chat = got.kind]
          [] OTHER -> [w2 EXCEPT !.err = got.exc, !.chat = got.kind]

\* lines 189-218: the whole log is read, folded, and only then rendered
RunReplay(w, file) ==
    LET ld == LoadEvents(file)
        r == Replay(ld.records)
    IN  IF ~ld.ok THEN [svg |-> NoFile, err |-> "CorruptLog"]
        ELSE IF r.err # "" THEN [svg |-> NoFile, err |-> r.err]
        ELSE [svg |-> RenderSvg(ToDict(r.st)), err |-> ""]

(***************************************************************************)
(* The state after an invocation ended as w.                               *)
(***************************************************************************)
Outcome(op, w) ==
    [op |-> op, prev |-> last.op,
     result |-> IF w.err # "" THEN "raise" ELSE IF w.rc = 0 THEN "return 0" ELSE "return 1",
     exc |-> w.err, cmd |-> w.cmd, chat |-> w.chat,
     cmdBefore |-> Len(cmdFile), evBefore |-> Len(evFile)]

Commit(op, w, subs) ==
    /\ cmdFile' = w.cmdFile
    /\ evFile' = w.evFile
    /\ journal' = w.journal
    /\ engineState' = w.state
    /\ subscribers' = subs
    /\ delivered' = w.delivered
    /\ published' = w.published
    /\ idCounter' = w.idCounter
    /\ requests' = w.requests
    /\ last' = Outcome(op, w)

Init ==
    /\ cmdFile = <<>>
    /\ evFile = <<>>
    /\ journal = <<>>
    /\ engineState = KuhulState
    /\ subscribers = <<>>
    /\ delivered = <<>>
    /\ published = <<>>
    /\ idCounter = 0
    /\ clock = 0
    /\ svgFile = NoFile
    /\ replaySvg = NoFile
    /\ foreignFile = <<>>
    /\ requests = <<>>
    /\ last = [op |-> "none", prev |-> "none", result |-> "return 0", exc |-> "", cmd |-> Null, chat |-> "",
               cmdBefore |-> 0, evBefore |-> 0]

TextChoices == {Null, Str("OK")}
ChatProviders == {"openai", "claude"}
\* --api-key and the provider's environment variable: neither, the argument,
\* an empty argument beside a set variable
KeyChoices ==
    {[api_key |-> Null, env_key |-> Null], [api_key |-> Str("k"), env_key |-> Null],
     [api_key |-> Str(""), env_key |-> Str("k")]}

\* kuhul create <component> [--text T]
CmdCreate ==
    /\ Len(cmdFile) < MaxInvocations
    /\ \E ts \in {NowMs}, quiet \in BOOLEAN, component \in ComponentTypes,
          text \in TextChoices :
         LET w == RunCreate(Startup(cmdFile, evFile, journal), Handlers(quiet), ts,
                            component, text)
         IN  /\ Commit("create", w, Handlers(quiet))
             /\ clock' = ts
             /\ svgFile' = IF w.err = "" THEN RenderSvg(ToDict(w.state)) ELSE svgFile
    /\ UNCHANGED <<replaySvg, foreignFile>>

\* kuhul theme <name>
CmdTheme ==
    /\ Len(cmdFile) < MaxInvocations
    /\ \E ts \in {NowMs}, quiet \in BOOLEAN, name \in Themes :
         LET w == RunTheme(Startup(cmdFile, evFile, journal), Handlers(quiet), ts, name)
         IN  /\ Commit("theme", w, Handlers(quiet))
             /\ clock' = ts
             /\ svgFile' = IF w.err = "" THEN RenderSvg(ToDict(w.state)) ELSE svgFile
    /\ UNCHANGED <<replaySvg, foreignFile>>

\* kuhul export-svg [--file F]; with --file the document goes to F, not <session>.svg
CmdExportSvg ==
    /\ Len(cmdFile) < MaxInvocations
    /\ \E ts \in {NowMs}, quiet \in BOOLEAN, file \in {"", "x.svg"} :
         LET hint == IF file = "" THEN "sess_local.svg" ELSE file
             w == RunExport(Startup(cmdFile, evFile, journal), Handlers(quiet), ts, hint)
         IN  /\ Commit("export-svg", w, Handlers(quiet))
             /\ clock' = ts
             /\ svgFile' = IF w.err = "" /\ file = ""
                           THEN RenderSvg(ToDict(w.state)) ELSE svgFile
    /\ UNCHANGED <<replaySvg, foreignFile>>

\* kuhul chat --provider P --model m --message hi [--api-key K], the provider's
\* environment variable set or not, the POST ending in one of `outcomes`
ChatInvocation(outcomes) ==
    /\ Len(cmdFile) < MaxInvocations
    /\ \E ts \in {NowMs}, quiet \in BOOLEAN, provider \in ChatProviders,
          keys \in KeyChoices, http \in outcomes :
         LET w == RunChat(Startup(cmdFile, evFile, journal), Handlers(quiet), ts,
                          provider, keys.api_key, keys.env_key, http)
         IN  /\ Commit("chat", w, Handlers(quiet))
             /\ clock' = ts
    /\ UNCHANGED <<svgFile, replaySvg, foreignFile>>

CmdChat == ChatInvocation(HttpOutcomes)

\* (mutant) replay makes and logs a command of its own, as the other subcommands do
ReplayInvocation_Logged(file) ==
    /\ Len(cmdFile) < MaxInvocations
    /\ \E quiet \in BOOLEAN :
        LET w == PersistCommand(Startup(cmdFile, evFile, journal), NowMs, "replay", EmptyDict)
            out == RunReplay(w, file)
        IN  /\ Commit("replay", [w EXCEPT !.err = out.err], Handlers(quiet))
            /\ replaySvg' = IF out.err = "" THEN out.svg ELSE replaySvg
            /\ UNCHANGED <<clock, svgFile, foreignFile>>

\* kuhul replay [--file F]: the invocation over the file it is given
ReplayInvocation(file) ==
    \E quiet \in BOOLEAN :
        LET w == Startup(cmdFile, evFile, journal)
            out == RunReplay(w, file)
        IN  /\ Commit("replay", [w EXCEPT !.err = out.err], Handlers(quiet))
            /\ replaySvg' = IF out.err = "" THEN out.svg ELSE replaySvg
            /\ UNCHANGED <<clock, svgFile, foreignFile>>

\* kuhul replay (the session's own event log)
CmdReplay == ReplayInvocation(evFile)

Next == CmdCreate \/ CmdTheme \/ CmdExportSvg \/ CmdChat \/ CmdReplay

Spec == Init /\ [][Next]_vars

(***************************************************************************)
(* SpecEngine: one process holding one IdGen, one SessionLog on the event  *)
(* log, one EventBus and one Engine over an initially empty KuhulState,    *)
(* driven through the API: engine.apply_command, engine.state_snapshot,    *)
(* engine.emit_event.  Commands are built with make_cmd from the same      *)
(* IdGen; the caller may pass any op and args.                             *)
(***************************************************************************)
Running ==
    [Process(cmdFile, evFile, journal, engineState, idCounter, delivered, published)
        EXCEPT !.requests = requests]

ApiCommands ==
    {[op |-> "ui.create", args |-> a] :
        a \in {Dict([component |-> Str("button"), props |-> Dict([text |-> Str("OK")])]),
               Dict([component |-> Str("card"), props |-> EmptyDict]),
               Dict([component |-> Str("chat-bubble"), props |-> EmptyDict]),
               Dict([component |-> Str("slider"), props |-> EmptyDict]),
               Dict([props |-> EmptyDict]),
               Null}}
    \cup {[op |-> "ui.theme.apply", args |-> a] :
        a \in {Dict([name |-> Str("dark")]), Dict([name |-> Str("light")]),
               Dict([name |-> Str("neon")]), EmptyDict}}
    \cup {[op |-> "svg.export", args |-> Dict([hint |-> Str("x.svg")])],
          [op |-> "ai.chat", args |-> EmptyDict],
          [op |-> "ui.delete", args |-> EmptyDict]}

\* engine.apply_command(make_cmd(idgen, op=..., args=...))
EngineApply ==
    /\ idCounter < MaxIds
    /\ \E c \in ApiCommands :
         LET n == idCounter + 1
             w == [Running EXCEPT !.idCounter = n, !.cmd = MakeCmd(n, clock, c.op, c.args)]
         IN  Commit("apply_command", ApplyCommand(w, subscribers, clock, w.cmd), subscribers)
    /\ UNCHANGED <<clock, svgFile, replaySvg, foreignFile>>

\* engine.state_snapshot(caused_by=cmd["id"])
EngineSnapshot ==
    /\ idCounter < MaxIds
    /\ last.cmd # Null
    /\ LET w == [Running EXCEPT !.cmd = last.cmd]
       IN  Commit("state_snapshot",
                  StateSnapshot(w, subscribers, clock, Get(last.cmd, "id")), subscribers)
    /\ UNCHANGED <<clock, svgFile, replaySvg, foreignFile>>

\* engine.emit_event(...) by a collaborator recording an outcome of the latest command
EngineEmit ==
    /\ idCounter < MaxIds
    /\ last.cmd # Null
    /\ \E topic \in {"ai.chat.completed", "ai.chat.failed"} :
         LET w == [Running EXCEPT !.cmd = last.cmd]
         IN  Commit("emit_event",
                    EmitEvent(w, subscribers, clock, Get(last.cmd, "id"), topic,
                              Dict([provider |-> Str("openai")])),
                    subscribers)
    /\ UNCHANGED <<clock, svgFile, replaySvg, foreignFile>>

NextEngine == EngineApply \/ EngineSnapshot \/ EngineEmit

SpecEngine == Init /\ [][NextEngine]_vars

(***************************************************************************)
(* SpecBus: one EventBus over one SessionLog, driven through its API:      *)
(* bus.subscribe and bus.publish.  A handler either returns or raises when *)
(* it is called.                                                           *)
(***************************************************************************)
\* bus.subscribe(handler)
Subscribe ==
    /\ Len(subscribers) < MaxSubs
    /\ \E h \in {"ok", "raises"} :
         Commit("subscribe", Running, Append(subscribers, h))
    /\ UNCHANGED <<clock, svgFile, replaySvg, foreignFile>>

\* bus.publish(event)
BusPublish ==
    /\ Len(evFile) < MaxPublishes
    /\ \E topic \in {"state.snapshot", "ai.chat.completed", "ai.chat.failed"} :
         LET n == idCounter + 1
             e == Event(MkId("evt", clock, n), clock, MkId("cmd", clock, 0), topic, EmptyDict)
         IN  Commit("publish", Publish([Running EXCEPT !.idCounter = n], subscribers, e),
                    subscribers)
    /\ UNCHANGED <<clock, svgFile, replaySvg, foreignFile>>

NextBus == Subscribe \/ BusPublish

SpecBus == Init /\ [][NextBus]_vars

(***************************************************************************)
(* SpecReplay: `kuhul replay --file F` over a JSONL file F that any writer *)
(* may have produced and goes on extending: events the Engine writes,      *)
(* snapshots, foreign topics and kinds, payloads of the wrong shape, a     *)
(* line that is not JSON.                                                  *)
(***************************************************************************)
Foreign(n, topic, data) == Event(MkId("evt", 0, n), 0, MkId("cmd", 0, 0), topic, data)
ButtonRecord == Dict([id |-> MkId("cmp", 0, 1), type |-> Str("button"), props |-> EmptyDict])
CardRecord == Dict([id |-> MkId("cmp", 0, 2), type |-> Str("card"), props |-> EmptyDict])

ForeignLines ==
    {Dumps(Foreign(1, "state.changed",
                   Dict([kind |-> Str("component.created"), component |-> ButtonRecord]))),
     Dumps(Foreign(2, "state.changed",
                   Dict([kind |-> Str("component.created"), component |-> CardRecord]))),
     Dumps(Foreign(3, "state.changed", Dict([kind |-> Str("theme.changed"), to |-> Str("dark")]))),
     Dumps(Foreign(4, "state.changed", Dict([kind |-> Str("theme.changed"), to |-> Str("light")]))),
     Dumps(Foreign(5, "state.changed", Dict([kind |-> Str("theme.changed"), to |-> Str("neon")]))),
     Dumps(Foreign(6, "state.changed",
                   Dict([kind |-> Str("component.created"), component |-> Str("button")]))),
     Dumps(Foreign(7, "state.changed", Dict([kind |-> Str("component.removed")]))),
     Dumps(Foreign(8, "state.changed", Null)),
     Dumps(Foreign(9, "state.changed", Str("component.created"))),
     Dumps(Foreign(10, "state.snapshot",
                   ToDict([components |-> <<CardRecord>>, theme |-> Str("dark")]))),
     Dumps(Foreign(11, "ai.chat.completed", Dict([provider |-> Str("openai")]))),
     Dumps(Num(5)),
     MalformedLine}

\* some writer appends one line to F
ForeignWrite ==
    /\ Len(foreignFile) < MaxForeignLen
    /\ \E line \in ForeignLines : foreignFile' = Append(foreignFile, line)
    /\ last' = [last EXCEPT !.op = "write", !.prev = last.op, !.result = "return 0",
                            !.exc = ""]
    /\ UNCHANGED <<cmdFile, evFile, journal, engineState, subscribers, delivered, published,
                   idCounter, clock, svgFile, replaySvg, requests>>

\* kuhul replay --file F
CmdReplayFile == ReplayInvocation(foreignFile)

NextReplay == ForeignWrite \/ CmdReplayFile

SpecReplay == Init /\ [][NextReplay]_vars

(***************************************************************************)
(* SpecProvider: one process calling providers.request_chat directly, with *)
(* any provider name, the api_key argument and the provider's environment  *)
(* variable each unset, empty or set, and the POST (when one is made)      *)
(* ending in any outcome.                                                  *)
(***************************************************************************)
CallProviders == {"openai", "claude", "gemini"}
CallKeys == {Null, Str(""), Str("k")}
CallOutcomes == HttpOutcomes \cup {[k |-> "bad_utf8"]}

\* request_chat(provider=..., api_key=..., ...)
ProviderCall ==
    /\ Len(requests) < MaxRequests
    /\ \E provider \in CallProviders, api_key \in CallKeys, env_key \in CallKeys,
          http \in CallOutcomes :
         LET got == RequestChat(provider, api_key, env_key, http)
         IN  /\ requests' = IF got.sent
                            THEN Append(requests, Request(provider, api_key, env_key))
                            ELSE requests
             /\ last' = [op |-> "request_chat", prev |-> last.op,
                         result |-> IF got.kind = "ok" THEN "return" ELSE "raise",
                         exc |-> IF got.kind = "raise" THEN got.exc ELSE got.kind,
                         cmd |-> Null, chat |-> got.kind,
                         cmdBefore |-> Len(cmdFile), evBefore |-> Len(evFile),
                         provider |-> provider, api_key |-> api_key, env_key |-> env_key,
                         msg |-> got.msg, reqBefore |-> Len(requests)]
    /\ UNCHANGED <<cmdFile, evFile, journal, engineState, subscribers, delivered, published,
                   idCounter, clock, svgFile, replaySvg, foreignFile>>

NextProvider == ProviderCall

SpecProvider == Init /\ [][NextProvider]_vars

(***************************************************************************)
(* Helpers of the properties below.                                        *)
(***************************************************************************)
IsPrefix(a, b) == Len(a) <= Len(b) /\ SubSeq(b, 1, Len(a)) = a

IsOf(log, entry) == entry.log = log

\* the records handed to append for one log, in call order
JournalOf(log) ==
    LET es == SelectSeq(journal, LAMBDA x : IsOf(log, x))
    IN  [i \in 1..Len(es) |-> es[i].rec]

TopicIs(e, topic) == IsDict(e) /\ Get(e, "topic") = Str(topic)

\* the State a fold over the session's event log gives
Replayed == Replay(ReadAll(evFile).records)

(***************************************************************************)
(* C1. Replay determinism inside one Engine: after any sequence of         *)
(* commands applied through one Engine that started from an empty State    *)
(* and an empty event log, the Engine's State equals the State the replay  *)
(* loop folds from the event log: same components in the same order, same *)
(* theme.                                                                  *)
(***************************************************************************)
C1_EngineStateIsReplayOfLog ==
    /\ LoadEvents(evFile).ok
    /\ Replay(LoadEvents(evFile).records) = [err |-> "", st |-> engineState]

C1_Witness ==
    /\ last.op = "apply_command"
    /\ Len(engineState.components) >= 2
    /\ engineState.components[1] # engineState.components[2]

(***************************************************************************)
(* C2. Replay determinism across CLI invocations, as claimed: after every  *)
(* create or theme invocation of a session, folding the state.changed      *)
(* events of the event log written so far gives the State the invocation's *)
(* Engine holds, which is the State the invocation renders.                *)
(***************************************************************************)
C2_InvocationStateIsReplayOfLog ==
    (last.op \in {"create", "theme"} /\ last.result = "return 0")
        => /\ Replayed.st = engineState
           /\ svgFile = RenderSvg(ToDict(Replayed.st))

(***************************************************************************)
(* C3. Causal integrity: the logs hold exactly what was appended, and      *)
(* every event appended names as caused_by the id of a command or event    *)
(* that was appended strictly before it.                                   *)
(***************************************************************************)
CausedEarlier(i) ==
    \E j \in 1..(i - 1) : Get(journal[j].rec, "id") = Get(journal[i].rec, "caused_by")

C3_CausalIntegrity ==
    /\ ReadAll(evFile).records = JournalOf("events")
    /\ ReadAll(cmdFile).records = JournalOf("commands")
    /\ \A i \in 1..Len(journal) : journal[i].log = "events" => CausedEarlier(i)
    /\ \A i \in 1..Len(evFile) :
         \E j \in 1..Len(cmdFile) :
            Get(cmdFile[j].value, "id") = Get(evFile[i].value, "caused_by")

C3_Witness ==
    /\ last.op = "chat"
    /\ Len(evFile) >= 3
    /\ TopicIs(evFile[1].value, "state.changed")
    /\ TopicIs(evFile[3].value, "ai.chat.failed")

(***************************************************************************)
(* C4. The event log and the command log are append-only: every step       *)
(* leaves the lines already in a log where they are and only adds lines    *)
(* after them, and reading the event log gives exactly the records         *)
(* appended to it so far, in append order.                                 *)
(***************************************************************************)
C4_AppendOnly ==
    /\ [][IsPrefix(evFile, evFile') /\ IsPrefix(cmdFile, cmdFile')]_vars
    /\ [](LoadEvents(evFile) = [ok |-> TRUE, records |-> JournalOf("events")])

C4_Witness ==
    /\ last.op = "replay"
    /\ last.prev \in {"create", "theme", "export-svg", "chat"}
    /\ Len(evFile) >= 3
    /\ Len(cmdFile) >= 2

(***************************************************************************)
(* C5. Atomic command application: apply_command with an op outside the    *)
(* table, or with a missing or malformed required argument, raises and     *)
(* leaves the State and the event log as they were; a call that raises     *)
(* changes neither; the State changes only in a step that appends exactly  *)
(* one state.changed event, and every state.changed event appended         *)
(* describes the change made in that step.                                 *)
(***************************************************************************)
Malformed(cmd) ==
    LET op == Get(cmd, "op")
        args == Get(cmd, "args")
    IN  \/ op \notin {Str("ui.create"), Str("ui.theme.apply"), Str("svg.export"), Str("ai.chat")}
        \/ op # Str("ai.chat") /\ ~IsDict(args)
        \/ /\ op = Str("ui.create")
           /\ \/ \A c \in ComponentTypes : Get(args, "component") # Str(c)
              \/ ~IsDict(Get(args, "props"))
        \/ /\ op = Str("ui.theme.apply")
           /\ \A n \in Themes : Get(args, "name") # Str(n)

Describes(e, before, after) ==
    LET data == Get(e, "data")
    IN  \/ /\ Get(data, "kind") = Str("component.created")
           /\ after.components = Append(before.components, Get(data, "component"))
           /\ after.theme = before.theme
        \/ /\ Get(data, "kind") = Str("theme.changed")
           /\ after.theme = Get(data, "to")
           /\ after.components = before.components

C5_Step ==
    LET new == SubSeq(evFile', Len(evFile) + 1, Len(evFile'))
    IN  /\ (last'.op = "apply_command" /\ Malformed(last'.cmd))
            => last'.result = "raise"
        /\ last'.result = "raise" => (engineState' = engineState /\ evFile' = evFile)
        /\ engineState' # engineState
            => (Len(new) = 1 /\ TopicIs(new[1].value, "state.changed"))
        /\ \A i \in 1..Len(new) :
              TopicIs(new[i].value, "state.changed")
                  => Describes(new[i].value, engineState, engineState')

C5_AtomicApply == [][C5_Step]_vars

C5_Witness ==
    /\ last.op = "apply_command"
    /\ last.exc = "UnrecognizedOperation"
    /\ last.prev = "apply_command"
    /\ Len(engineState.components) >= 1
    /\ engineState.theme # KuhulState.theme

(***************************************************************************)
(* C6. Event Bus publish: every publish appends its event to the log,      *)
(* whatever its handlers do; the handlers called for the k-th event are    *)
(* exactly the subscribers of that moment, each once, in subscription      *)
(* order, raising ones included, and each is called with the event already *)
(* in the log.                                                             *)
(***************************************************************************)
RECURSIVE SumTo(_, _)
SumTo(s, k) == IF k = 0 THEN 0 ELSE s[k] + SumTo(s, k - 1)

C6_PublishDelivers ==
    /\ ReadAll(evFile).ok
    /\ Len(evFile) = Len(published)
    /\ Len(delivered) = SumTo(published, Len(published))
    /\ \A k \in 1..Len(published) :
          /\ published[k] <= Len(subscribers)
          /\ k > 1 => published[k - 1] <= published[k]
          /\ (k = Len(published) /\ last.op = "publish") => published[k] = Len(subscribers)
          /\ \A i \in 1..published[k] :
                LET d == delivered[SumTo(published, k - 1) + i]
                IN  /\ d.sub = i
                    /\ d.handler = subscribers[i]
                    /\ d.evt = Get(evFile[k].value, "id")
                    /\ d.logLen >= k

C6_Witness ==
    /\ subscribers = <<"raises", "ok">>
    /\ published = <<2, 2>>
    /\ last.op = "publish"

(***************************************************************************)
(* C7. Snapshot independence: folding a log gives the same State (or the   *)
(* same failure) as folding the log with its state.snapshot events         *)
(* deleted, and the document a replay invocation writes is the one drawn   *)
(* from the log without its snapshots.                                     *)
(***************************************************************************)
IsSnapshot(e) == TopicIs(e, "state.snapshot")
WithoutSnapshots(events) == SelectSeq(events, LAMBDA e : ~IsSnapshot(e))

C7_SnapshotIndependence ==
    LET ld == ReadAll(foreignFile)
    IN  /\ ld.ok => Replay(ld.records) = Replay(WithoutSnapshots(ld.records))
        /\ (last.op = "replay" /\ last.result = "return 0")
              => replaySvg = RenderSvg(ToDict(Replay(WithoutSnapshots(ld.records)).st))

C7_Witness ==
    /\ last.op = "replay"
    /\ last.result = "return 0"
    /\ \E i \in 1..Len(foreignFile) : IsSnapshot(foreignFile[i].value)
    /\ \E i \in 1..Len(foreignFile) : TopicIs(foreignFile[i].value, "state.changed")
    /\ replaySvg = RenderSvg(ToDict([components |-> <<ButtonRecord>>, theme |-> Str("light")]))

(***************************************************************************)
(* C8. Provider failure, as claimed: whenever request_chat does not return *)
(* a response, the chat invocation returns 1 and has appended exactly one  *)
(* event, an ai.chat.failed event caused by the chat command.              *)
(***************************************************************************)
C8_ProviderFailureRecorded ==
    (last.op = "chat" /\ last.chat # "ok")
        => /\ last.result = "return 1"
           /\ Len(evFile) = last.evBefore + 1
           /\ TopicIs(evFile[Len(evFile)].value, "ai.chat.failed")
           /\ Get(evFile[Len(evFile)].value, "caused_by") = Get(last.cmd, "id")

C10_CorruptLogAborts ==
    [][(last'.op = "replay" /\ ~ReadAll(foreignFile).ok)
          => /\ last'.result = "raise"
             /\ last'.exc = "CorruptLog"
             /\ replaySvg' = replaySvg]_vars

C10_Witness ==
    /\ last.op = "replay"
    /\ last.exc = "CorruptLog"
    /\ Len(foreignFile) >= 2
    /\ foreignFile[Len(foreignFile)] = MalformedLine
    /\ ReadAll(SubSeq(foreignFile, 1, Len(foreignFile) - 1)).ok
    /\ TopicIs(foreignFile[1].value, "state.changed")
    /\ replaySvg.doc = "svg"

(***************************************************************************)
(* C11. Replay is total over unrecognized input, as claimed: an event      *)
(* whose topic is not state.changed, a state.changed event whose data.kind *)
(* is neither component.created nor theme.changed, and a theme.changed     *)
(* event whose `to` is not a recognized theme each leave the State under   *)
(* reconstruction as it was and do not make the replay fail.               *)
(***************************************************************************)
\* data.kind and data.to of an event: None when the event carries no such value
DataField(e, k) ==
    IF IsDict(Get(e, "data")) THEN Get(Get(e, "data"), k) ELSE Null

Unrecognized(e) ==
    /\ IsDict(e)
    /\ \/ Get(e, "topic") # Str("state.changed")
       \/ DataField(e, "kind") \notin {Str("component.created"), Str("theme.changed")}
       \/ /\ DataField(e, "kind") = Str("theme.changed")
          /\ \A n \in Themes : DataField(e, "to") # Str(n)

C11_ReplayTotal ==
    LET ld == ReadAll(foreignFile)
        n == Len(ld.records)
    IN  (last.op = "replay" /\ ld.ok) =>
          /\ \A i \in 1..n :
                LET before == Replay(SubSeq(ld.records, 1, i - 1))
                IN  (before.err = "" /\ Unrecognized(ld.records[i]))
                       => ReplayStep(before, ld.records[i]) = before
          /\ (\A i \in 1..n : Unrecognized(ld.records[i]))
                => /\ last.result = "return 0"
                   /\ replaySvg = RenderSvg(ToDict(KuhulState))

(***************************************************************************)
(* C12. Verbatim append, as claimed: the components a replay reconstructs  *)
(* are exactly the data.component payloads of the state.changed /          *)
(* component.created events of the file, in file order, one entry per      *)
(* event, none dropped.                                                    *)
(***************************************************************************)
IsCreated(e) ==
    /\ IsDict(e)
    /\ Get(e, "topic") = Str("state.changed")
    /\ DataField(e, "kind") = Str("component.created")

Payloads(events) ==
    LET created == SelectSeq(events, IsCreated)
    IN  [i \in 1..Len(created) |-> DataField(created[i], "component")]

C12_EveryPayloadAppended ==
    (last.op = "replay" /\ last.result = "return 0")
        => replaySvg.items = Payloads(ReadAll(foreignFile).records)

(***************************************************************************)
(* C12, amended. The components a replay reconstructs are exactly the      *)
(* mapping-valued data.component payloads of the state.changed /           *)
(* component.created events, verbatim, in file order, one entry per such   *)
(* event, never reordered, merged or deduplicated; an event whose          *)
(* data.component is absent or not a mapping adds no entry.  This holds    *)
(* of every prefix of the file the loop gets through and of the document   *)
(* the invocation writes.                                                  *)
(***************************************************************************)
RecordPayloads(events) == SelectSeq(Payloads(events), IsDict)

C12_RecordPayloadsAppended ==
    LET ld == ReadAll(foreignFile)
    IN  ld.ok =>
          /\ \A i \in 0..Len(ld.records) :
                LET r == Replay(SubSeq(ld.records, 1, i))
                IN  r.err = "" => r.st.components = RecordPayloads(SubSeq(ld.records, 1, i))
          /\ (last.op = "replay" /\ last.result = "return 0")
                => replaySvg.items = RecordPayloads(ld.records)

C12_Witness ==
    /\ last.op = "replay"
    /\ last.result = "return 0"
    /\ Len(foreignFile) = 3
    /\ Payloads(ReadAll(foreignFile).records) = <<ButtonRecord, Str("button"), ButtonRecord>>
    /\ replaySvg.items = <<ButtonRecord, ButtonRecord>>

(***************************************************************************)
(* C13. Theme is last-writer-wins.  Every apply-theme command with a       *)
(* recognized name sets the Engine's theme to that name and appends        *)
(* exactly one theme.changed event, caused by the command, whose `to` is   *)
(* that name; nothing else changes the theme or appends a theme.changed    *)
(* event.  So the log holds one theme.changed event per such command, in   *)
(* order, and the theme is the name of the last one.  The theme a replay   *)
(* reconstructs is the `to` of the last theme.changed event with a         *)
(* recognized theme, or the initial default when there is none, also when  *)
(* a theme.changed event with an unrecognized theme stands anywhere in the *)
(* log.                                                                    *)
(***************************************************************************)
IsThemeChanged(e) ==
    /\ IsDict(e)
    /\ Get(e, "topic") = Str("state.changed")
    /\ DataField(e, "kind") = Str("theme.changed")

RecognizedTheme(e) == IsThemeChanged(e) /\ \E n \in Themes : DataField(e, "to") = Str(n)

LastTheme(events) ==
    LET idx == {i \in 1..Len(events) : RecognizedTheme(events[i])}
    IN  IF idx = {} THEN Str(DefaultTheme)
        ELSE DataField(events[CHOOSE i \in idx : \A j \in idx : j <= i], "to")

ThemeName(cmd) ==
    IF Get(cmd, "op") = Str("ui.theme.apply") /\ IsDict(Get(cmd, "args"))
    THEN Get(Get(cmd, "args"), "name") ELSE Null

AppliesTheme(cmd) == \E n \in Themes : ThemeName(cmd) = Str(n)

InsertAt(events, i, e) ==
    SubSeq(events, 1, i - 1) \o <<e>> \o SubSeq(events, i, Len(events))

C13_Step ==
    LET new == SubSeq(evFile', Len(evFile) + 1, Len(evFile'))
        themed == SelectSeq(new, LAMBDA l : IsThemeChanged(l.value))
    IN  IF last'.op = "apply_command" /\ AppliesTheme(last'.cmd)
        THEN /\ last'.result = "return 0"
             /\ engineState'.theme = ThemeName(last'.cmd)
             /\ Len(new) = 1
             /\ Len(themed) = 1
             /\ DataField(new[1].value, "to") = ThemeName(last'.cmd)
             /\ Get(new[1].value, "caused_by") = Get(last'.cmd, "id")
        ELSE /\ engineState'.theme = engineState.theme
             /\ themed = <<>>

C13_StateInv ==
    LET events == ReadAll(evFile).records
    IN  /\ engineState.theme = LastTheme(events)
        /\ Replay(events).st.theme = LastTheme(events)
        /\ \A i \in 1..(Len(events) + 1) :
              LET foreign == InsertAt(events, i, Foreign(5, "state.changed",
                                 Dict([kind |-> Str("theme.changed"), to |-> Str("neon")])))
              IN  Replay(foreign).st.theme = LastTheme(foreign)

C13_ThemeLastWriterWins == [][C13_Step]_vars /\ []C13_StateInv

C13_Witness ==
    /\ last.op = "apply_command"
    /\ AppliesTheme(last.cmd)
    /\ engineState.theme = Str("light")
    /\ \E i \in 1..Len(evFile) : \E j \in (i + 1)..Len(evFile) :
          /\ IsThemeChanged(evFile[i].value)
          /\ DataField(evFile[i].value, "to") = Str("dark")
          /\ IsThemeChanged(evFile[j].value)
          /\ DataField(evFile[j].value, "to") = Str("light")
          /\ \A k \in (j + 1)..Len(evFile) : ~IsThemeChanged(evFile[k].value)

(***************************************************************************)
(* C14. Non-mutating operations: an export-svg invocation and a chat       *)
(* invocation, however it ends, append no state.changed event, leave the   *)
(* lines already in the event log in place, leave the State of the         *)
(* invocation's Engine as it was built, and leave what a replay of the     *)
(* event log reconstructs as it was before the invocation.                 *)
(***************************************************************************)
C14_Step ==
    LET new == SubSeq(evFile', Len(evFile) + 1, Len(evFile'))
    IN  last'.op \in {"export-svg", "chat"}
          => /\ IsPrefix(evFile, evFile')
             /\ \A i \in 1..Len(new) : ~TopicIs(new[i].value, "state.changed")
             /\ engineState' = KuhulState
             /\ Replay(ReadAll(evFile').records) = Replay(ReadAll(evFile).records)

C14_NonMutating == [][C14_Step]_vars

C14_Witness ==
    /\ last.op = "chat"
    /\ last.chat = "ok"
    /\ last.prev = "create"
    /\ Len(evFile) > last.evBefore
    /\ Len(Replayed.st.components) = 1

(***************************************************************************)
(* C15. Chat outcome: of the events a chat invocation's command caused, at *)
(* most one is an ai.chat.completed or ai.chat.failed event, never one of  *)
(* each; and the invocation returns 0 exactly when it appended an          *)
(* ai.chat.completed event, caused by its command, that carries provider,  *)
(* model, response and meta.                                               *)
(***************************************************************************)
CausedBy(cmd, topic) ==
    {i \in 1..Len(evFile) :
        /\ TopicIs(evFile[i].value, topic)
        /\ Get(evFile[i].value, "caused_by") = Get(cmd, "id")}

IsCompletion(e) ==
    /\ IsDict(Get(e, "data"))
    /\ DOMAIN Get(e, "data").kv = {"provider", "model", "response", "meta"}

C15_ChatOutcomeExclusive ==
    last.op = "chat" =>
        LET completed == CausedBy(last.cmd, "ai.chat.completed")
            failed == CausedBy(last.cmd, "ai.chat.failed")
        IN  /\ Cardinality(completed \cup failed) <= 1
            /\ \A i \in completed \cup failed : i > last.evBefore
            /\ last.result = "return 0"
                  <=> \E i \in completed : IsCompletion(evFile[i].value)

C15_Witness ==
    /\ last.op = "chat"
    /\ last.prev = "chat"
    /\ last.result = "return 0"
    /\ CausedBy(last.cmd, "ai.chat.completed") = {2}
    /\ TopicIs(evFile[1].value, "ai.chat.failed")

(***************************************************************************)
(* C16. Ordering inside one create or theme invocation: the invocation     *)
(* makes exactly three appends, in this order: its command to the command  *)
(* log, a state.changed event to the event log, a state.snapshot event to  *)
(* the event log; both events name the command's id as caused_by and the   *)
(* snapshot's data is the serialized State after the mutation.  When       *)
(* apply_command raises, the sequence apply-then-snapshot appends nothing  *)
(* to the event log.                                                       *)
(***************************************************************************)
\* cli.py 146-150 run from the state before the invocation with a command the
\* Engine rejects: the exception of apply_command ends the sequence
C16_FailedApply ==
    \A c \in ApiCommands :
        LET w == PersistCommand(Startup(cmdFile, evFile, journal), NowMs, c.op, c.args)
            done == ApplyAndSnapshot(w, <<"printer">>, NowMs)
        IN  CommandError(MakeCmd(1, NowMs, c.op, c.args)) # ""
              => done.err # "" /\ done.evFile = evFile /\ done.state = KuhulState

C16_Step ==
    LET new == SubSeq(journal', Len(journal) + 1, Len(journal'))
        id == Get(last'.cmd, "id")
    IN  last'.op \in {"create", "theme"}
          => /\ C16_FailedApply
             /\ last'.result = "return 0"
             /\ Len(new) = 3
             /\ new[1] = [log |-> "commands", rec |-> last'.cmd]
             /\ new[2].log = "events"
             /\ TopicIs(new[2].rec, "state.changed")
             /\ Get(new[2].rec, "caused_by") = id
             /\ new[3].log = "events"
             /\ TopicIs(new[3].rec, "state.snapshot")
             /\ Get(new[3].rec, "caused_by") = id
             /\ Get(new[3].rec, "data") = ToDict(engineState')
             /\ cmdFile' = Append(cmdFile, Dumps(new[1].rec))
             /\ evFile' = evFile \o <<Dumps(new[2].rec), Dumps(new[3].rec)>>

C16_InvocationOrder == [][C16_Step]_vars

C16_Witness ==
    /\ last.op = "theme"
    /\ last.prev = "create"
    /\ last.result = "return 0"
    /\ Len(journal) = 6
    /\ Get(Get(evFile[4].value, "data"), "theme") = Str("dark")

(***************************************************************************)
(* C17. The replay invocation is read-only with respect to the logs: it    *)
(* makes no command, takes no id, appends nothing to the command log or    *)
(* the event log and publishes no event, so both logs are after the        *)
(* invocation what they were before it.                                    *)
(***************************************************************************)
C17_Step ==
    last'.op = "replay"
      => /\ cmdFile' = cmdFile
         /\ evFile' = evFile
         /\ journal' = journal
         /\ last'.cmd = Null
         /\ idCounter' = 0
         /\ published' = <<>>
         /\ delivered' = <<>>

C17_ReplayReadOnly == [][C17_Step]_vars

C17_Witness ==
    /\ last.op = "replay"
    /\ last.result = "return 0"
    /\ Len(cmdFile) = 2
    /\ Len(Replayed.st.components) = 2
    /\ replaySvg = RenderSvg(ToDict(Replayed.st))

(***************************************************************************)
(* C18. request_chat validates before it sends: called with a provider     *)
(* that is not in the provider table, or with neither the api_key argument *)
(* nor the provider's environment variable holding a non-empty key, it     *)
(* raises ProviderError and no HTTP request is issued; when both checks    *)
(* pass exactly one request is issued, to the provider's endpoint and with *)
(* the resolved key, whatever happens to it afterwards.                    *)
(***************************************************************************)
NonEmpty(k) == k # Null /\ k # Str("")

C18_ValidatesBeforeSending ==
    last.op = "request_chat" =>
        LET known == last.provider \in Providers
            keyed == NonEmpty(last.api_key) \/ NonEmpty(last.env_key)
            sent == SubSeq(requests, last.reqBefore + 1, Len(requests))
        IN  IF known /\ keyed
            THEN /\ Len(sent) = 1
                 /\ sent[1].url[1] = last.provider
                 /\ sent[1].key = IF NonEmpty(last.api_key) THEN last.api_key
                                   ELSE last.env_key
            ELSE /\ sent = <<>>
                 /\ last.chat = "ProviderError"
                 /\ last.msg = IF known THEN "Missing API key" ELSE "Unsupported provider"

C18_Witness ==
    /\ last.op = "request_chat"
    /\ last.prev = "request_chat"
    /\ last.provider = "claude"
    /\ last.api_key = Str("")
    /\ last.env_key = Null
    /\ last.reqBefore = 1
    /\ Len(requests) = 1

====
